---- MODULE Spec2Model ----
(***************************************************************************)
(* Model of the hospital appointment API (Express + sqlite3 + JSON files). *)
(*                                                                         *)
(* JavaScript runs one callback at a time: every action below is one       *)
(* synchronous run of a request handler or of a database / file-system     *)
(* callback.  A database statement and the callback that receives its      *)
(* result are one step (callbacks are delivered in the order in which the  *)
(* statements complete).                                                   *)
(*                                                                         *)
(* Strings that the code only compares (ids, times, names) are TLA+        *)
(* strings, "" being the missing / empty value (falsy in JavaScript).      *)
(* Strings that the code parses (dates, e-mail addresses, city names) are  *)
(* sequences of one-character strings, << >> being the missing value.      *)
(***************************************************************************)
EXTENDS Integers, Sequences, FiniteSets, TLC

\* ------------------------------------------------------------------ bounds

\* Largest appointment id the model hands out (the AUTOINCREMENT counter).
MaxBookings == 2

\* Number of requests that can be in flight at the same time.
MaxClients == 2

\* Number of template file writes that can be outstanding at the same time.
MaxPending == 1

\* ------------------------------------------------------ characters, strings

Digits == {"0", "1", "2", "3", "4", "5", "6", "7", "8", "9"}

DigitVal(ch) ==
  CASE ch = "0" -> 0 [] ch = "1" -> 1 [] ch = "2" -> 2 [] ch = "3" -> 3
    [] ch = "4" -> 4 [] ch = "5" -> 5 [] ch = "6" -> 6 [] ch = "7" -> 7
    [] ch = "8" -> 8 [] ch = "9" -> 9 [] OTHER -> 0

Whitespace == {" "}

\* String.prototype.toLowerCase on one character.
LowerChar(ch) ==
  CASE ch = "A" -> "a" [] ch = "D" -> "d" [] ch = "E" -> "e" [] ch = "I" -> "i"
    [] ch = "L" -> "l" [] ch = "M" -> "m" [] ch = "N" -> "n" [] ch = "O" -> "o"
    [] ch = "P" -> "p" [] ch = "R" -> "r" [] ch = "S" -> "s" [] ch = "U" -> "u"
    [] OTHER -> ch

toLowerCase(s) == [i \in 1..Len(s) |-> LowerChar(s[i])]

\* ------------------------------------------------------------- validation

\* Mutant of dateRegex: only the length is tested.
dateRegex_LengthOnly(date) == Len(date) = 10

\* /^\d{4}-\d{2}-\d{2}$/.test(date)
dateRegex(date) ==
  /\ Len(date) = 10
  /\ \A i \in {1, 2, 3, 4, 6, 7, 9, 10} : date[i] \in Digits
  /\ date[5] = "-"
  /\ date[8] = "-"

\* /^[^\s@]+@[^\s@]+\.[^\s@]+$/.test(email)
emailRegex(email) ==
  \E i \in 1..Len(email) : \E j \in 1..Len(email) :
    /\ 1 < i /\ i + 1 < j /\ j < Len(email)
    /\ email[i] = "@"
    /\ email[j] = "."
    /\ \A k \in 1..Len(email) :
         /\ email[k] \notin Whitespace
         /\ (k # i => email[k] # "@")

\* ---------------------------------------------------------------- moment

IsLeap(y) == (y % 4 = 0 /\ y % 100 # 0) \/ y % 400 = 0

DaysInMonth(y, m) ==
  CASE m \in {1, 3, 5, 7, 8, 10, 12} -> 31
    [] m \in {4, 6, 9, 11} -> 30
    [] OTHER -> IF IsLeap(y) THEN 29 ELSE 28

WeekdayNames ==
  <<"Sunday", "Monday", "Tuesday", "Wednesday", "Thursday", "Friday", "Saturday">>

MonthOffset == <<0, 3, 2, 5, 0, 3, 5, 1, 4, 6, 2, 4>>

\* Mutant of dayOfWeekOf: the weekday table starts at Monday.
dayOfWeekOf_MondayFirst(date) ==
  LET y == 1000 * DigitVal(date[1]) + 100 * DigitVal(date[2])
             + 10 * DigitVal(date[3]) + DigitVal(date[4])
      m == 10 * DigitVal(date[6]) + DigitVal(date[7])
      d == 10 * DigitVal(date[9]) + DigitVal(date[10])
      yy == IF m < 3 THEN y - 1 ELSE y
  IN  IF m < 1 \/ m > 12 \/ d < 1 \/ d > DaysInMonth(y, m)
      THEN "Invalid date"
      ELSE WeekdayNames[
             ((yy + (yy \div 4) - (yy \div 100) + (yy \div 400)
                + MonthOffset[m] + d + 1) % 7) + 1]

\* moment(date, 'YYYY-MM-DD').format('dddd') for a date that passed dateRegex:
\* the English weekday name of the proleptic Gregorian date, or "Invalid date"
\* when month or day is out of range.
dayOfWeekOf(date) ==
  LET y == 1000 * DigitVal(date[1]) + 100 * DigitVal(date[2])
             + 10 * DigitVal(date[3]) + DigitVal(date[4])
      m == 10 * DigitVal(date[6]) + DigitVal(date[7])
      d == 10 * DigitVal(date[9]) + DigitVal(date[10])
      yy == IF m < 3 THEN y - 1 ELSE y
  IN  IF m < 1 \/ m > 12 \/ d < 1 \/ d > DaysInMonth(y, m)
      THEN "Invalid date"
      ELSE WeekdayNames[
             ((yy + (yy \div 4) - (yy \div 100) + (yy \div 400)
                + MonthOffset[m] + d) % 7) + 1]

\* --------------------------------------------------------- reference data

\* doc.json: d1 and d2 share template A1, d3 has A2, d4 names a template that
\* does not exist.
doctorData ==
  << [id |-> "d1", name |-> "Dr One", specializationId |-> "s1",
      branchId |-> "b1", availabilityId |-> "A1"],
     [id |-> "d2", name |-> "Dr Two", specializationId |-> "s2",
      branchId |-> "b1", availabilityId |-> "A1"],
     [id |-> "d3", name |-> "Dr Three", specializationId |-> "s1",
      branchId |-> "b2", availabilityId |-> "A2"],
     [id |-> "d4", name |-> "Dr Four", specializationId |-> "s3",
      branchId |-> "b2", availabilityId |-> "A9"] >>

Slot(startTime, endTime) ==
  [startTime |-> startTime, endTime |-> endTime, status |-> "available"]

\* availability.json as loaded at start-up: every slot available.  Template A2
\* comes first; Tuesday of A1 holds two slots with the same times.
initialAvailability ==
  << [availabilityId |-> "A2",
      slots |-> [day \in {"Monday"} |-> <<Slot("10:00", "11:00")>>]],
     [availabilityId |-> "A1",
      slots |-> [day \in {"Monday", "Tuesday"} |->
                   IF day = "Monday"
                   THEN <<Slot("09:00", "10:00"), Slot("10:00", "11:00")>>
                   ELSE <<Slot("09:00", "10:00"), Slot("09:00", "10:00")>>]] >>

Branch(id, specializationIds) ==
  [id |-> id, name |-> id, specializationIds |-> specializationIds]

City_Paris == <<"P", "a", "r", "i", "s">>
City_paris == <<"p", "a", "r", "i", "s">>
City_PARIS == <<"P", "A", "R", "I", "S">>
City_Pune == <<"P", "u", "n", "e">>
City_PUNE == <<"P", "U", "N", "E">>
City_Rome == <<"R", "o", "m", "e">>
City_rome == <<"r", "o", "m", "e">>
City_Lima == <<"L", "i", "m", "a">>
City_Par == <<"P", "a", "r">>

\* city.json: three data sets the server may be started with.
CityJsonA ==
  << [city |-> City_Paris,
      branches |-> <<Branch("b1", <<"s1", "s2">>), Branch("b2", <<"s2">>)>>],
     [city |-> City_Pune, branches |-> <<Branch("b3", <<"s1">>)>>] >>

\* two records of one city, spelled differently, and a city without branches
CityJsonB ==
  << [city |-> City_PARIS, branches |-> <<Branch("b1", <<"s3">>)>>],
     [city |-> City_Rome, branches |-> << >>],
     [city |-> City_paris,
      branches |-> <<Branch("b2", <<"s1">>), Branch("b3", <<"s2", "s1">>)>>] >>

CityJsonC ==
  << [city |-> City_Rome,
      branches |-> <<Branch("b1", <<"s2">>), Branch("b2", << >>),
                     Branch("b3", <<"s3", "s2">>)>>],
     [city |-> City_Pune, branches |-> <<Branch("b4", <<"s3">>)>>],
     [city |-> City_Paris, branches |-> <<Branch("b5", <<"s1", "s3">>)>>] >>

\* ------------------------------------------------------------------ state

VARIABLES
  availabilityData,  \* the in-memory availability templates (let availabilityData)
  patients,          \* the rows of table patients
  nextId,            \* the id the next INSERT gets (AUTOINCREMENT)
  req,               \* per client: the request in flight or the last response
  pending,           \* contents of the fs.writeFile calls not yet completed
  file,              \* content of availability.json on disk
  hospitalData,      \* city.json as loaded
  hospitalsQuery,    \* query of the last GET /api/hospitals
  hospitalsResponse  \* its response body

vars ==
  <<availabilityData, patients, nextId, req, pending, file,
    hospitalData, hospitalsQuery, hospitalsResponse>>

bookingVars == <<availabilityData, patients, nextId, req, pending, file>>

hospitalVars == <<hospitalData, hospitalsQuery, hospitalsResponse>>

Clients == 1..MaxClients

\* A reference to a slot object of availabilityData; NoSlot is null / undefined.
NoSlot == [entry |-> 0, day |-> "", idx |-> 0]

\* Array.prototype.find: of the indices whose element satisfies the test, the
\* first; 0 if there is none.
FindIndex(matching) ==
  IF matching = {} THEN 0
  ELSE CHOOSE i \in matching : \A j \in matching : i <= j

doctorIndex(doctorId) ==
  FindIndex({i \in 1..Len(doctorData) : doctorData[i].id = doctorId})

entryIndex(data, availabilityId) ==
  FindIndex({i \in 1..Len(data) : data[i].availabilityId = availabilityId})

\* Mutant of findSlotByDayOfWeek: the last matching slot of the day is returned.
findSlotByDayOfWeek_LastMatch(data, doctorId, dayOfWeek, startTime, endTime) ==
  LET d == doctorIndex(doctorId)
      e == IF d = 0 THEN 0 ELSE entryIndex(data, doctorData[d].availabilityId)
  IN  IF d = 0 THEN NoSlot
      ELSE IF e = 0 THEN NoSlot
      ELSE IF dayOfWeek \notin DOMAIN data[e].slots THEN NoSlot
      ELSE LET slots == data[e].slots[dayOfWeek]
               matching == {k \in 1..Len(slots) :
                              /\ slots[k].startTime = startTime
                              /\ slots[k].endTime = endTime}
           IN  IF matching = {} THEN NoSlot
               ELSE [entry |-> e, day |-> dayOfWeek,
                     idx |-> CHOOSE i \in matching : \A j \in matching : j <= i]

findSlotByDayOfWeek(data, doctorId, dayOfWeek, startTime, endTime) ==
  LET d == doctorIndex(doctorId)
      e == IF d = 0 THEN 0 ELSE entryIndex(data, doctorData[d].availabilityId)
  IN  IF d = 0 THEN NoSlot
      ELSE IF e = 0 THEN NoSlot
      ELSE IF dayOfWeek \notin DOMAIN data[e].slots THEN NoSlot
      ELSE LET slots == data[e].slots[dayOfWeek]
               i == FindIndex({k \in 1..Len(slots) :
                                 /\ slots[k].startTime = startTime
                                 /\ slots[k].endTime = endTime})
           IN  IF i = 0 THEN NoSlot
               ELSE [entry |-> e, day |-> dayOfWeek, idx |-> i]

slotStatus(data, ref) == data[ref.entry].slots[ref.day][ref.idx].status

\* slot.status = status, on the object ref points to.
setStatus(data, ref, status) ==
  [data EXCEPT ![ref.entry].slots[ref.day][ref.idx].status = status]

\* saveAvailability(): fs.writeFile is handed JSON.stringify(availabilityData)
\* as it is at the call, and completes later.
saveAvailability(data) == pending' = pending \cup {data}

\* ----------------------------------------------------------------- inputs

Date_Mon11 == <<"2", "0", "2", "4", "-", "0", "3", "-", "1", "1">>
Date_Tue12 == <<"2", "0", "2", "4", "-", "0", "3", "-", "1", "2">>
Date_Wed13 == <<"2", "0", "2", "4", "-", "0", "3", "-", "1", "3">>
Date_Mon18 == <<"2", "0", "2", "4", "-", "0", "3", "-", "1", "8">>
\* day-month-year: fails dateRegex
Date_DMY == <<"1", "1", "-", "0", "3", "-", "2", "0", "2", "4">>
\* passes dateRegex, is no calendar date
Date_Feb30 == <<"2", "0", "2", "4", "-", "0", "2", "-", "3", "0">>

Email_Good == <<"a", "@", "b", ".", "c">>
Email_Bad == <<"n", "o", "t", "-", "a", "n", "-", "e", "m", "a", "i", "l">>

\* The fields of a request body; a field the request does not carry is "" or << >>.
Body(patientName, purposeOfMeet, doctorId, date, day, startTime, endTime, email) ==
  [patientName |-> patientName, phoneNo |-> "555", age |-> 30,
   purposeOfMeet |-> purposeOfMeet, doctorId |-> doctorId, date |-> date,
   day |-> day, startTime |-> startTime, endTime |-> endTime, email |-> email]

NoBody == Body("", "", "", << >>, "", "", "", << >>)

\* Bodies of POST /api/book-slot: well-formed ones, and one defect at a time.
BookBodies ==
  LET base == Body("Ann", "checkup", "d1", Date_Mon11, "", "09:00", "10:00", Email_Good)
  IN  {base, [base EXCEPT !.startTime = "10:00", !.endTime = "11:00"],
       [base EXCEPT !.date = Date_Tue12], [base EXCEPT !.date = Date_Mon18]}
      \cup {[base EXCEPT !.doctorId = d] : d \in {"d2", "d3", "dX", "d4", ""}}
      \cup {[base EXCEPT !.date = dt] : dt \in {Date_DMY, Date_Feb30, Date_Wed13, << >>}}
      \cup {[base EXCEPT !.email = e] : e \in {Email_Bad, << >>}}
      \cup {[base EXCEPT !.patientName = ""], [base EXCEPT !.purposeOfMeet = ""],
            [base EXCEPT !.startTime = ""], [base EXCEPT !.endTime = ""],
            [base EXCEPT !.endTime = "11:00"]}

\* Bodies of PUT /api/appointments/:patientId; the day they carry is not the
\* weekday of their date.
RescheduleBodies ==
  LET base == Body("", "followup", "", Date_Tue12, "Friday", "09:00", "10:00", << >>)
  IN  {base, [base EXCEPT !.date = Date_Mon18],
       [base EXCEPT !.date = Date_Mon18, !.startTime = "10:00", !.endTime = "11:00"]}
      \cup {[base EXCEPT !.date = dt] : dt \in {Date_DMY, Date_Feb30, Date_Wed13, << >>}}
      \cup {[base EXCEPT !.day = ""], [base EXCEPT !.purposeOfMeet = ""],
            [base EXCEPT !.startTime = ""], [base EXCEPT !.endTime = ""],
            [base EXCEPT !.endTime = "11:00"]}

\* The :patientId values tried: every id the model hands out, and one more.
PatientIds == 1..(MaxBookings + 1)

\* ---------------------------------------------------------------- requests

\* A client's request: op and pc say which callback is awaited ("done": none,
\* status and error hold the response), the rest are the handler's locals.
Request(op, pc, status, error, patientId, body, doctorId, oldDay, oldStartTime, oldEndTime, dayOfWeek, slot) ==
  [op |-> op, pc |-> pc, status |-> status, error |-> error,
   patientId |-> patientId, body |-> body, doctorId |-> doctorId,
   oldDay |-> oldDay, oldStartTime |-> oldStartTime, oldEndTime |-> oldEndTime,
   dayOfWeek |-> dayOfWeek, slot |-> slot]

NoRequest == Request("none", "done", 0, "", 0, NoBody, "", "", "", "", "", NoSlot)

\* res.status(status).json(...): the request is over.  Of the handler's locals
\* only the slot it resolved is kept with the response.
Respond(r, status, error) ==
  Request(r.op, "done", status, error, 0, NoBody, "", "", "", "", "", r.slot)

\* INSERTs issued and not yet completed.
InsertsInFlight == Cardinality({c \in Clients : req[c].pc = "insert"})

\* A new request is taken only while fewer than MaxPending file writes are
\* outstanding (bounds the set of outstanding writes).
CanStart(c) == req[c].pc = "done" /\ Cardinality(pending) < MaxPending

Init ==
  /\ availabilityData = initialAvailability
  /\ patients = {}
  /\ nextId = 1
  /\ req = [c \in Clients |-> NoRequest]
  /\ pending = {}
  /\ file = initialAvailability
  /\ hospitalData = CityJsonA
  /\ hospitalsQuery = [city |-> << >>, specialization |-> ""]
  /\ hospitalsResponse = [status |-> 0, body |-> << >>]

\* ------------------------------------------------------ POST /api/book-slot

\* Outcome of a synchronous run of a handler or callback: the response (status
\* 0: none yet, the request goes on), the locals it computed, and the
\* availability data as it leaves it.
Outcome(status, error, dayOfWeek, slot, data) ==
  [status |-> status, error |-> error, dayOfWeek |-> dayOfWeek, slot |-> slot,
   data |-> data]

\* Mutant of bookConflict: the status is compared with a misspelt literal.
bookConflict_Misspelt(data, slot) == slotStatus(data, slot) = "Booked"

\* if (slot.status === 'booked')
bookConflict(data, slot) == slotStatus(data, slot) = "booked"

\* Mutant of bookFlip: the handler leaves the slot as it is.
bookFlip_Forgotten(data, slot) == data

\* slot.status = 'booked'
bookFlip(data, slot) == setStatus(data, slot, "booked")

\* The handler up to db.run: validation, slot lookup, conflict check, and the
\* flip of the slot, all in one synchronous run.
bookSlotHandler(data, b) ==
  LET dayOfWeek == dayOfWeekOf(b.date)
      slot == findSlotByDayOfWeek(data, b.doctorId, dayOfWeek, b.startTime, b.endTime)
  IN  IF b.date = << >> \/ ~dateRegex(b.date)
      THEN Outcome(400, "date", "", NoSlot, data)
      ELSE IF \/ b.patientName = "" \/ b.doctorId = "" \/ b.startTime = ""
              \/ b.endTime = "" \/ b.email = << >> \/ b.purposeOfMeet = ""
      THEN Outcome(400, "missing", "", NoSlot, data)
      ELSE IF ~emailRegex(b.email)
      THEN Outcome(400, "email", "", NoSlot, data)
      ELSE IF doctorIndex(b.doctorId) = 0
      THEN Outcome(404, "doctor", "", NoSlot, data)
      ELSE IF slot = NoSlot
      THEN Outcome(404, "slot", dayOfWeek, NoSlot, data)
      ELSE IF bookConflict(data, slot)
      THEN Outcome(400, "conflict", dayOfWeek, slot, data)
      ELSE Outcome(0, "", dayOfWeek, slot, bookFlip(data, slot))

BookSlot(c, b) ==
  /\ CanStart(c)
  /\ \E h \in {bookSlotHandler(availabilityData, b)} :
      LET r == Request("book", "insert", 0, "", 0, b, b.doctorId, "", "", "",
                       h.dayOfWeek, h.slot)
      IN
      /\ h.status = 0 => nextId + InsertsInFlight <= MaxBookings
      /\ availabilityData' = h.data
      /\ req' = [req EXCEPT ![c] =
                   IF h.status = 0 THEN r ELSE Respond(r, h.status, h.error)]
      /\ UNCHANGED <<patients, nextId, pending, file>>
      /\ UNCHANGED hospitalVars

\* INSERT INTO patients (...) VALUES (...), the row getting id.
insertRow(rows, id, b, dayOfWeek) ==
  rows \cup
    {[id |-> id, patientName |-> b.patientName, phoneNo |-> b.phoneNo,
      age |-> b.age, purposeOfMeet |-> b.purposeOfMeet, doctorId |-> b.doctorId,
      date |-> b.date, day |-> dayOfWeek, startTime |-> b.startTime,
      endTime |-> b.endTime, email |-> b.email]}

\* The INSERT succeeds and its callback runs.
InsertDone(c) ==
  LET r == req[c]
  IN  /\ r.op = "book" /\ r.pc = "insert"
      /\ patients' = insertRow(patients, nextId, r.body, r.dayOfWeek)
      /\ nextId' = nextId + 1
      /\ saveAvailability(availabilityData)
      /\ req' = [req EXCEPT ![c] = Respond(r, 201, "")]
      /\ UNCHANGED <<availabilityData, file>>
      /\ UNCHANGED hospitalVars

\* Mutant of InsertFailed: the flip is rolled back.
InsertFailed_RollsBack(c) ==
  LET r == req[c]
  IN  /\ r.op = "book" /\ r.pc = "insert"
      /\ req' = [req EXCEPT ![c] = Respond(r, 500, "db")]
      /\ availabilityData' = setStatus(availabilityData, r.slot, "available")
      /\ UNCHANGED <<patients, nextId, pending, file>>
      /\ UNCHANGED hospitalVars

\* The INSERT fails: the callback gets err.
InsertFailed(c) ==
  LET r == req[c]
  IN  /\ r.op = "book" /\ r.pc = "insert"
      /\ req' = [req EXCEPT ![c] = Respond(r, 500, "db")]
      /\ UNCHANGED <<availabilityData, patients, nextId, pending, file>>
      /\ UNCHANGED hospitalVars

\* ------------------------------------------ PUT /api/appointments/:patientId

\* SELECT * FROM patients WHERE id = ?: the row, as a set of at most one row.
selectById(rows, patientId) == {p \in rows : p.id = patientId}

\* The handler up to db.get: validation of the body.
rescheduleHandler(b) ==
  IF b.date = << >> \/ ~dateRegex(b.date)
  THEN [status |-> 400, error |-> "date"]
  ELSE IF b.day = "" \/ b.startTime = "" \/ b.endTime = "" \/ b.purposeOfMeet = ""
  THEN [status |-> 400, error |-> "missing"]
  ELSE [status |-> 0, error |-> ""]

Reschedule(c, patientId, b) ==
  /\ CanStart(c)
  /\ \E h \in {rescheduleHandler(b)} :
      LET r == Request("reschedule", "get", 0, "", patientId, b, "", "", "", "", "",
                       NoSlot)
      IN
      /\ req' = [req EXCEPT ![c] =
                   IF h.status = 0 THEN r ELSE Respond(r, h.status, h.error)]
      /\ UNCHANGED <<availabilityData, patients, nextId, pending, file>>
      /\ UNCHANGED hospitalVars

\* Mutant of rescheduleConflict: the check is skipped.
rescheduleConflict_Skipped(data, newSlot) == FALSE

\* if (newSlot.status === 'booked')
rescheduleConflict(data, newSlot) == slotStatus(data, newSlot) = "booked"

\* Mutant of rescheduleCheck: the caller's day is the lookup key.
rescheduleCheck_CallerDay(data, currentRow, b) ==
  LET newSlot == findSlotByDayOfWeek(data, currentRow.doctorId, b.day,
                                     b.startTime, b.endTime)
  IN  IF doctorIndex(currentRow.doctorId) = 0
      THEN Outcome(404, "doctor", "", NoSlot, data)
      ELSE IF newSlot = NoSlot
      THEN Outcome(404, "slot", b.day, NoSlot, data)
      ELSE IF rescheduleConflict(data, newSlot)
      THEN Outcome(400, "conflict", b.day, newSlot, data)
      ELSE Outcome(0, "", b.day, newSlot, data)

\* Mutant of rescheduleCheck: the slot the row itself holds is no conflict.
rescheduleCheck_OwnSlotAllowed(data, currentRow, b) ==
  LET newDayOfWeek == dayOfWeekOf(b.date)
      newSlot == findSlotByDayOfWeek(data, currentRow.doctorId, newDayOfWeek,
                                     b.startTime, b.endTime)
      ownSlot == findSlotByDayOfWeek(data, currentRow.doctorId, currentRow.day,
                                     currentRow.startTime, currentRow.endTime)
  IN  IF doctorIndex(currentRow.doctorId) = 0
      THEN Outcome(404, "doctor", "", NoSlot, data)
      ELSE IF newSlot = NoSlot
      THEN Outcome(404, "slot", newDayOfWeek, NoSlot, data)
      ELSE IF newSlot # ownSlot /\ rescheduleConflict(data, newSlot)
      THEN Outcome(400, "conflict", newDayOfWeek, newSlot, data)
      ELSE Outcome(0, "", newDayOfWeek, newSlot, data)

\* The db.get callback, given the row found: the new slot is looked up by the
\* weekday of the new date and checked.
rescheduleCheck(data, currentRow, b) ==
  LET newDayOfWeek == dayOfWeekOf(b.date)
      newSlot == findSlotByDayOfWeek(data, currentRow.doctorId, newDayOfWeek,
                                     b.startTime, b.endTime)
  IN  IF doctorIndex(currentRow.doctorId) = 0
      THEN Outcome(404, "doctor", "", NoSlot, data)
      ELSE IF newSlot = NoSlot
      THEN Outcome(404, "slot", newDayOfWeek, NoSlot, data)
      ELSE IF rescheduleConflict(data, newSlot)
      THEN Outcome(400, "conflict", newDayOfWeek, newSlot, data)
      ELSE Outcome(0, "", newDayOfWeek, newSlot, data)

\* db.get succeeds and its callback runs: the row's doctor, day and times are
\* captured, the new slot is checked, and the UPDATE is issued.
RescheduleGet(c) ==
  LET r == req[c]
      found == selectById(patients, r.patientId)
  IN  /\ r.op = "reschedule" /\ r.pc = "get"
      /\ IF found = {}
         THEN /\ req' = [req EXCEPT ![c] = Respond(r, 404, "appointment")]
              /\ UNCHANGED availabilityData
         ELSE \E currentRow \in found :
              \E h \in {rescheduleCheck(availabilityData, currentRow, r.body)} :
              LET captured == [r EXCEPT !.pc = "update",
                                        !.doctorId = currentRow.doctorId,
                                        !.oldDay = currentRow.day,
                                        !.oldStartTime = currentRow.startTime,
                                        !.oldEndTime = currentRow.endTime,
                                        !.dayOfWeek = h.dayOfWeek, !.slot = h.slot]
              IN
              /\ req' = [req EXCEPT ![c] =
                           IF h.status = 0 THEN captured
                           ELSE Respond(captured, h.status, h.error)]
              /\ availabilityData' = h.data
      /\ UNCHANGED <<patients, nextId, pending, file>>
      /\ UNCHANGED hospitalVars

\* UPDATE patients SET date, day, startTime, endTime, purposeOfMeet WHERE id = ?
updateRow(rows, patientId, date, day, startTime, endTime, purposeOfMeet) ==
  {IF p.id = patientId
   THEN [p EXCEPT !.date = date, !.day = day, !.startTime = startTime,
                  !.endTime = endTime, !.purposeOfMeet = purposeOfMeet]
   ELSE p : p \in rows}

\* Mutant of rescheduleSlots: the old slot is not freed.
rescheduleSlots_KeepsOld(data, r) == setStatus(data, r.slot, "booked")

\* Mutant of rescheduleSlots: the new slot is booked first, then the old freed.
rescheduleSlots_NewFirst(data, r) ==
  LET booked == setStatus(data, r.slot, "booked")
      oldSlot == findSlotByDayOfWeek(booked, r.doctorId, r.oldDay,
                                     r.oldStartTime, r.oldEndTime)
  IN  IF oldSlot # NoSlot THEN setStatus(booked, oldSlot, "available")
      ELSE booked

\* The slot changes of the UPDATE callback: the old slot, looked up again by the
\* captured day and times, is freed if found; then the new slot is booked.
rescheduleSlots(data, r) ==
  LET oldSlot == findSlotByDayOfWeek(data, r.doctorId, r.oldDay,
                                     r.oldStartTime, r.oldEndTime)
      freed == IF oldSlot # NoSlot THEN setStatus(data, oldSlot, "available")
               ELSE data
  IN  setStatus(freed, r.slot, "booked")

\* The UPDATE succeeds and its callback runs.
RescheduleUpdated(c) ==
  LET r == req[c]
      b == r.body
  IN  /\ r.op = "reschedule" /\ r.pc = "update"
      /\ patients' = updateRow(patients, r.patientId, b.date, r.dayOfWeek,
                               b.startTime, b.endTime, b.purposeOfMeet)
      /\ availabilityData' = rescheduleSlots(availabilityData, r)
      /\ saveAvailability(availabilityData')
      /\ req' = [req EXCEPT ![c] = Respond(r, 200, "")]
      /\ UNCHANGED <<nextId, file>>
      /\ UNCHANGED hospitalVars

\* db.get or the UPDATE fails.
RescheduleFailed(c) ==
  LET r == req[c]
  IN  /\ r.op = "reschedule" /\ r.pc \in {"get", "update"}
      /\ req' = [req EXCEPT ![c] = Respond(r, 500, "db")]
      /\ UNCHANGED <<availabilityData, patients, nextId, pending, file>>
      /\ UNCHANGED hospitalVars

\* --------------------------------------- DELETE /api/appointments/:patientId

\* The handler: db.get is issued.
Cancel(c, patientId) ==
  /\ CanStart(c)
  /\ req' = [req EXCEPT ![c] =
               Request("cancel", "get", 0, "", patientId, NoBody, "", "", "", "", "",
                       NoSlot)]
  /\ UNCHANGED <<availabilityData, patients, nextId, pending, file>>
  /\ UNCHANGED hospitalVars

\* db.get succeeds and its callback runs: the row's slot is captured and the
\* DELETE is issued.
CancelGet(c) ==
  LET r == req[c]
      found == selectById(patients, r.patientId)
      currentRow == CHOOSE p \in found : TRUE
  IN  /\ r.op = "cancel" /\ r.pc = "get"
      /\ UNCHANGED <<availabilityData, patients, nextId, pending, file>>
      /\ UNCHANGED hospitalVars
      /\ IF found = {}
         THEN req' = [req EXCEPT ![c] = Respond(r, 404, "appointment")]
         ELSE req' = [req EXCEPT ![c] =
                        [r EXCEPT !.pc = "delete", !.doctorId = currentRow.doctorId,
                                  !.oldDay = currentRow.day,
                                  !.oldStartTime = currentRow.startTime,
                                  !.oldEndTime = currentRow.endTime]]

\* Mutant of cancelSlot: the slot is looked up in the first template listed.
cancelSlot_FirstTemplate(data, r) ==
  IF r.oldDay \notin DOMAIN data[1].slots THEN NoSlot
  ELSE LET slots == data[1].slots[r.oldDay]
           i == FindIndex({k \in 1..Len(slots) :
                             /\ slots[k].startTime = r.oldStartTime
                             /\ slots[k].endTime = r.oldEndTime})
       IN  IF i = 0 THEN NoSlot
           ELSE [entry |-> 1, day |-> r.oldDay, idx |-> i]

\* The slot the DELETE callback frees: looked up by the captured doctor, day
\* and times.
cancelSlot(data, r) ==
  LET d == doctorIndex(r.doctorId)
      e == IF d = 0 THEN 0 ELSE entryIndex(data, doctorData[d].availabilityId)
  IN  IF d = 0 \/ e = 0 THEN NoSlot
      ELSE IF r.oldDay \notin DOMAIN data[e].slots THEN NoSlot
      ELSE LET slots == data[e].slots[r.oldDay]
               i == FindIndex({k \in 1..Len(slots) :
                                 /\ slots[k].startTime = r.oldStartTime
                                 /\ slots[k].endTime = r.oldEndTime})
           IN  IF i = 0 THEN NoSlot
               ELSE [entry |-> e, day |-> r.oldDay, idx |-> i]

\* Mutant of deleteRow: no row matches.
deleteRow_NoMatch(rows, patientId) == rows

\* DELETE FROM patients WHERE id = ?
deleteRow(rows, patientId) == {p \in rows : p.id # patientId}

\* The DELETE succeeds and its callback runs.
CancelDeleted(c) ==
  LET r == req[c]
      slot == cancelSlot(availabilityData, r)
  IN  /\ r.op = "cancel" /\ r.pc = "delete"
      /\ patients' = deleteRow(patients, r.patientId)
      /\ IF slot # NoSlot
         THEN /\ availabilityData' = setStatus(availabilityData, slot, "available")
              /\ saveAvailability(availabilityData')
         ELSE UNCHANGED <<availabilityData, pending>>
      /\ req' = [req EXCEPT ![c] = Respond([r EXCEPT !.slot = slot], 200, "")]
      /\ UNCHANGED <<nextId, file>>
      /\ UNCHANGED hospitalVars

\* db.get or the DELETE fails.
CancelFailed(c) ==
  LET r == req[c]
  IN  /\ r.op = "cancel" /\ r.pc \in {"get", "delete"}
      /\ req' = [req EXCEPT ![c] = Respond(r, 500, "db")]
      /\ UNCHANGED <<availabilityData, patients, nextId, pending, file>>
      /\ UNCHANGED hospitalVars

\* ------------------------------------------------------------ fs.writeFile

\* An outstanding write completes: the file holds the content it was handed.
WriteDone(content) ==
  /\ content \in pending
  /\ pending' = pending \ {content}
  /\ file' = content
  /\ UNCHANGED <<availabilityData, patients, nextId, req>>
  /\ UNCHANGED hospitalVars

\* ------------------------------------------------------------------- reads

\* GET /api/availability/:doctorId
getAvailability(data, doctorId) ==
  LET d == doctorIndex(doctorId)
      e == IF d = 0 THEN 0 ELSE entryIndex(data, doctorData[d].availabilityId)
  IN  IF d = 0 THEN [status |-> 404, availability |-> << >>]
      ELSE IF e = 0 THEN [status |-> 404, availability |-> << >>]
      ELSE [status |-> 200, availability |-> data[e].slots]

\* GET /api/patients/:id, the SELECT succeeding.
getPatient(rows, id) ==
  IF selectById(rows, id) = {} THEN [status |-> 404, rows |-> {}]
  ELSE [status |-> 200, rows |-> selectById(rows, id)]

\* ------------------------------------------------------ GET /api/hospitals

\* Array.prototype.includes
includes(seq, x) == \E i \in 1..Len(seq) : seq[i] = x

\* Mutant of cityMatches: the names are compared as they are.
cityMatches_CaseSensitive(c, city) == c.city = city

\* c.city.toLowerCase() === city.toLowerCase()
cityMatches(c, city) == toLowerCase(c.city) = toLowerCase(city)

\* The handler: the response body, and the reference data as the handler
\* leaves it (it works on copies).
getHospitals(data, city, specialization) ==
  LET byCity == IF city # << >>
                THEN SelectSeq(data, LAMBDA c : cityMatches(c, city))
                ELSE data
      narrowed == [i \in 1..Len(byCity) |->
                     [byCity[i] EXCEPT !.branches =
                        SelectSeq(byCity[i].branches,
                                  LAMBDA branch :
                                    includes(branch.specializationIds, specialization))]]
      results == IF specialization # ""
                 THEN SelectSeq(narrowed, LAMBDA cityObj : Len(cityObj.branches) > 0)
                 ELSE byCity
  IN  [results |-> results, data |-> data]

ListHospitals(city, specialization) ==
  LET out == getHospitals(hospitalData, city, specialization)
  IN  /\ hospitalsQuery' = [city |-> city, specialization |-> specialization]
      /\ hospitalsResponse' = [status |-> 200, body |-> out.results]
      /\ hospitalData' = out.data
      /\ UNCHANGED bookingVars

CityParams ==
  {<< >>, City_Paris, City_paris, City_PARIS, City_Pune, City_PUNE, City_rome,
   City_Lima, City_Par}

SpecializationParams == {"", "s1", "s2", "s3", "s9"}

\* ---------------------------------------------------------- specifications

\* The steps of client c's requests in which storage works.
ClientStep(c, bookBodies, patientIds, rescheduleBodies) ==
  \/ \E b \in bookBodies : BookSlot(c, b)
  \/ InsertDone(c)
  \/ \E id \in patientIds : \E b \in rescheduleBodies : Reschedule(c, id, b)
  \/ RescheduleGet(c)
  \/ RescheduleUpdated(c)
  \/ \E id \in patientIds : Cancel(c, id)
  \/ CancelGet(c)
  \/ CancelDeleted(c)

\* A statement of client c's request fails.
StorageFailure(c) ==
  \/ InsertFailed(c)
  \/ RescheduleFailed(c)
  \/ CancelFailed(c)

WriteStep == \E content \in pending : WriteDone(content)

\* One request at a time, each processed to completion before the next;
\* database statements may fail.
NextSeq ==
  \/ ClientStep(1, BookBodies, PatientIds, RescheduleBodies)
  \/ StorageFailure(1)
  \/ WriteStep

SpecSeq == Init /\ [][NextSeq]_vars

\* Requests of up to MaxClients clients, their callbacks interleaved, storage
\* working; the requests are well-formed, for doctor d1, and aim at the Monday
\* and Tuesday 09:00 slots of A1.
RacingBookBodies ==
  {b \in BookBodies : /\ b.doctorId = "d1"
                      /\ b.startTime = "09:00" /\ b.endTime = "10:00"
                      /\ b.date \in {Date_Mon11, Date_Tue12}
                      /\ b.patientName # "" /\ b.purposeOfMeet # ""
                      /\ b.email = Email_Good}

RacingRescheduleBodies ==
  {b \in RescheduleBodies : /\ b.date \in {Date_Tue12, Date_Mon18}
                            /\ b.startTime = "09:00" /\ b.endTime = "10:00"
                            /\ b.day # "" /\ b.purposeOfMeet # ""}

Next ==
  \/ \E c \in Clients :
       ClientStep(c, RacingBookBodies, 1..MaxBookings, RacingRescheduleBodies)
  \/ WriteStep

Spec == Init /\ [][Next]_vars

\* The steps of client c's booking and reschedule requests, storage working.
BookRescheduleStep(c) ==
  \/ \E b \in RacingBookBodies : BookSlot(c, b)
  \/ InsertDone(c)
  \/ \E id \in 1..MaxBookings : \E b \in RacingRescheduleBodies :
       Reschedule(c, id, b)
  \/ RescheduleGet(c)
  \/ RescheduleUpdated(c)

\* Concurrent bookings and reschedules only, their callbacks interleaved.
NextBookReschedule ==
  \/ \E c \in Clients : BookRescheduleStep(c)
  \/ WriteStep

SpecBookReschedule == Init /\ [][NextBookReschedule]_vars

\* Concurrent requests whose database statements may fail.
NextFailing ==
  \/ \E c \in Clients :
       ClientStep(c, RacingBookBodies, 1..MaxBookings, RacingRescheduleBodies)
  \/ \E c \in Clients : StorageFailure(c)
  \/ WriteStep

SpecFailing == Init /\ [][NextFailing]_vars

\* The hospital list queried, over each of the data sets.
InitHospitals ==
  /\ Init!1 /\ Init!2 /\ Init!3 /\ Init!4 /\ Init!5 /\ Init!6
  /\ hospitalData \in {CityJsonA, CityJsonB, CityJsonC}
  /\ hospitalsQuery = [city |-> << >>, specialization |-> ""]
  /\ hospitalsResponse = [status |-> 0, body |-> << >>]

NextHospitals ==
  \E city \in CityParams : \E specialization \in SpecializationParams :
    ListHospitals(city, specialization)

SpecHospitals == InitHospitals /\ [][NextHospitals]_vars

\* ================================================================ properties

\* No request is in flight.
Quiescent == \A c \in Clients : req[c].pc = "done"

\* Calendar facts: the weekday of each well-formed date the requests use.
CalendarWeekday(date) ==
  CASE date = Date_Mon11 -> "Monday" [] date = Date_Mon18 -> "Monday"
    [] date = Date_Tue12 -> "Tuesday" [] date = Date_Wed13 -> "Wednesday"
    [] OTHER -> "none"

\* Every slot of the templates, as references.
AllSlots(data) ==
  UNION {UNION {{[entry |-> e, day |-> d, idx |-> i] :
                   i \in 1..Len(data[e].slots[d])} :
                d \in DOMAIN data[e].slots} :
         e \in 1..Len(data)}

BookedSlots(data) == {s \in AllSlots(data) : slotStatus(data, s) = "booked"}

\* The slots of the doctor's template at (day, startTime, endTime).
WeeklySlots(data, doctorId, day, startTime, endTime) ==
  {s \in AllSlots(data) :
     /\ \E d \in 1..Len(doctorData) :
          /\ doctorData[d].id = doctorId
          /\ doctorData[d].availabilityId = data[s.entry].availabilityId
     /\ s.day = day
     /\ data[s.entry].slots[s.day][s.idx].startTime = startTime
     /\ data[s.entry].slots[s.day][s.idx].endTime = endTime}

\* The weekly slot a request or a row means: the first of them in its day.
WeeklySlot(data, doctorId, day, startTime, endTime) ==
  CHOOSE s \in WeeklySlots(data, doctorId, day, startTime, endTime) :
    \A t \in WeeklySlots(data, doctorId, day, startTime, endTime) : s.idx <= t.idx

RowSlots(data, p) == WeeklySlots(data, p.doctorId, p.day, p.startTime, p.endTime)

RowSlot(data, p) == WeeklySlot(data, p.doctorId, p.day, p.startTime, p.endTime)

\* A booking body with every field present and well-formed, for a known doctor.
WellFormedBooking(b) ==
  /\ b.patientName # "" /\ b.purposeOfMeet # "" /\ b.startTime # "" /\ b.endTime # ""
  /\ b.email = Email_Good
  /\ CalendarWeekday(b.date) # "none"
  /\ \E d \in 1..Len(doctorData) : doctorData[d].id = b.doctorId

BodySlots(data, doctorId, b) ==
  WeeklySlots(data, doctorId, CalendarWeekday(b.date), b.startTime, b.endTime)

BodySlot(data, doctorId, b) ==
  WeeklySlot(data, doctorId, CalendarWeekday(b.date), b.startTime, b.endTime)

\* The slot as GET /api/availability/:doctorId shows it.
ShownStatus(data, doctorId, s) ==
  IF getAvailability(data, doctorId).status # 200 THEN "none"
  ELSE getAvailability(data, doctorId).availability[s.day][s.idx].status

\* Client c's request ends in this step.
Ends(c) == req[c].pc # "done" /\ req'[c].pc = "done"

\* C1: with requests processed one at a time from the empty start, whenever no
\* request is in flight every appointment row has a slot in its doctor's
\* template at its stored day and times, that slot is booked, and no other row
\* has the same slot.
C1_RowsHoldTheirOwnBookedSlot ==
  Quiescent =>
    \A p \in patients :
      /\ RowSlots(availabilityData, p) # {}
      /\ slotStatus(availabilityData, RowSlot(availabilityData, p)) = "booked"
      /\ \A q \in patients :
           RowSlot(availabilityData, q) = RowSlot(availabilityData, p) => q = p

\* Two rows, one of them rescheduled, hold two booked slots after a request
\* that was refused.
C1_Witness ==
  /\ Quiescent
  /\ Cardinality(patients) = 2
  /\ \E p \in patients : p.purposeOfMeet = "followup"
  /\ \E p \in patients : p.doctorId = "d2"
  /\ Cardinality(BookedSlots(availabilityData)) = 2
  /\ req[1].status = 400

\* A booking proceeds to its INSERT exactly when the handler returns no response.
Proceeds(h) == h.status = 0

\* C2: a well-formed booking whose weekly slot exists and is available passes
\* the handler with the slot booked, and when its INSERT is confirmed the
\* response is 201, the slot is booked, and the doctor's availability shows it
\* booked.
C2_BookingPasses ==
  \A b \in BookBodies :
    (/\ WellFormedBooking(b)
     /\ BodySlots(availabilityData, b.doctorId, b) # {}
     /\ slotStatus(availabilityData, BodySlot(availabilityData, b.doctorId, b))
          = "available")
    => LET h == bookSlotHandler(availabilityData, b)
           s == BodySlot(availabilityData, b.doctorId, b)
       IN  /\ Proceeds(h)
           /\ h.slot = s
           /\ slotStatus(h.data, s) = "booked"
           /\ ShownStatus(h.data, b.doctorId, s) = "booked"

C2_BookingConfirmed ==
  \A c \in Clients :
    (req[c].op = "book" /\ Ends(c) /\ req'[c].status # 500)
    => /\ req'[c].status = 201
       /\ WellFormedBooking(req[c].body)
       /\ BodySlots(availabilityData', req[c].doctorId, req[c].body) # {}
       /\ req[c].slot = BodySlot(availabilityData', req[c].doctorId, req[c].body)
       /\ slotStatus(availabilityData', req[c].slot) = "booked"
       /\ ShownStatus(availabilityData', req[c].doctorId, req[c].slot) = "booked"

C2_AvailableSlotIsBooked == [](C2_BookingPasses) /\ [][C2_BookingConfirmed]_vars

\* A booking by the doctor sharing template A1 was confirmed with 201.
C2_Witness ==
  /\ req[1].op = "book" /\ req[1].pc = "done" /\ req[1].status = 201
  /\ \E p \in patients : p.doctorId = "d2"
  /\ BookedSlots(availabilityData) # {}

\* C3: when a booking is confirmed (201) it has added exactly one row, and a
\* second booking of the same weekly slot handled next is rejected with 400
\* (conflict) without reaching the INSERT: one row over the two requests.
C3_SecondBookingStep ==
  \A c \in Clients :
    (req[c].op = "book" /\ Ends(c) /\ req'[c].status = 201)
    => /\ Cardinality(patients') = Cardinality(patients) + 1
       /\ \A b \in BookBodies :
            (/\ WellFormedBooking(b)
             /\ BodySlots(availabilityData', b.doctorId, b) # {}
             /\ BodySlot(availabilityData', b.doctorId, b) = req[c].slot)
            => LET h == bookSlotHandler(availabilityData', b)
               IN  /\ h.status = 400 /\ h.error = "conflict"
                   /\ h.data = availabilityData'

\* A handler run that answers by itself leaves the rows alone.
C3_RejectedAddsNoRow ==
  \A c \in Clients :
    (req[c].pc = "done" /\ req'[c].pc = "done" /\ req'[c] # req[c])
    => patients' = patients

C3_SecondBookingRejected == [][C3_SecondBookingStep /\ C3_RejectedAddsNoRow]_vars

\* A booking was rejected as a conflict on a slot that one row holds.
C3_Witness ==
  /\ req[1].op = "book" /\ req[1].pc = "done"
  /\ req[1].status = 400 /\ req[1].error = "conflict"
  /\ Cardinality(patients) = 1
  /\ \E p \in patients : RowSlot(availabilityData, p) = req[1].slot

\* C4: a reschedule that succeeds leaves the slot of the row as stored before
\* the request available, the new slot booked, and as many slots booked as
\* before.
C4_Step ==
  \A c \in Clients :
    (req[c].op = "reschedule" /\ Ends(c) /\ req'[c].status = 200)
    => \A p \in selectById(patients, req[c].patientId) :
         LET b == req[c].body
             old == RowSlot(availabilityData, p)
             new == BodySlot(availabilityData, p.doctorId, b)
         IN  /\ RowSlots(availabilityData, p) # {}
             /\ BodySlots(availabilityData, p.doctorId, b) # {}
             /\ slotStatus(availabilityData, old) = "booked"
             /\ slotStatus(availabilityData, new) = "available"
             /\ slotStatus(availabilityData', old) = "available"
             /\ slotStatus(availabilityData', new) = "booked"
             /\ Cardinality(BookedSlots(availabilityData'))
                  = Cardinality(BookedSlots(availabilityData))

C4_RescheduleMovesBooking == [][C4_Step]_vars

\* A reschedule succeeded while another slot stayed booked.
C4_Witness ==
  /\ req[1].op = "reschedule" /\ req[1].pc = "done" /\ req[1].status = 200
  /\ \E p \in patients : p.purposeOfMeet = "followup" /\ p.day = "Tuesday"
  /\ Cardinality(BookedSlots(availabilityData)) = 2

\* C5: a cancellation that succeeds removes the row, GET /api/patients/:id
\* then answers 404, and the row's slot is available, also as the doctor's
\* availability shows it.
C5_Step ==
  \A c \in Clients :
    (req[c].op = "cancel" /\ Ends(c) /\ req'[c].status = 200)
    => /\ selectById(patients, req[c].patientId) # {}
       /\ getPatient(patients', req[c].patientId).status = 404
       /\ \A p \in selectById(patients, req[c].patientId) :
            /\ RowSlots(availabilityData, p) # {}
            /\ slotStatus(availabilityData', RowSlot(availabilityData, p)) = "available"
            /\ ShownStatus(availabilityData', p.doctorId, RowSlot(availabilityData, p))
                 = "available"

C5_CancelRemovesRowAndFreesSlot == [][C5_Step]_vars

\* A cancellation succeeded and left one other appointment.
C5_Witness ==
  /\ req[1].op = "cancel" /\ req[1].pc = "done" /\ req[1].status = 200
  /\ Cardinality(patients) = 1
  /\ Cardinality(BookedSlots(availabilityData)) = 1

\* A date of the shape YYYY-MM-DD.
ShapedDate(date) ==
  date \in {Date_Mon11, Date_Tue12, Date_Wed13, Date_Mon18, Date_Feb30}

\* C6: a booking or reschedule with a malformed date, a missing field or a
\* malformed e-mail is answered 400, a booking for an unknown doctor or for a
\* day and time with no weekly slot 404, a booking of a booked slot 400, each
\* with the slot statuses as they were; and every step of a request that ends
\* with 400 or 404 leaves the rows and the slot statuses as they were.
C6_BookingErrors ==
  \A b \in BookBodies :
    LET h == bookSlotHandler(availabilityData, b)
    IN  IF \/ ~ShapedDate(b.date) \/ b.patientName = "" \/ b.doctorId = ""
           \/ b.startTime = "" \/ b.endTime = "" \/ b.purposeOfMeet = ""
           \/ b.email # Email_Good
        THEN h.status = 400 /\ h.data = availabilityData
        ELSE IF ~WellFormedBooking(b) \/ BodySlots(availabilityData, b.doctorId, b) = {}
        THEN h.status = 404 /\ h.data = availabilityData
        ELSE IF slotStatus(availabilityData, BodySlot(availabilityData, b.doctorId, b))
                  = "booked"
        THEN h.status = 400 /\ h.error = "conflict" /\ h.data = availabilityData
        ELSE Proceeds(h)

C6_RescheduleErrors ==
  \A b \in RescheduleBodies :
    (\/ ~ShapedDate(b.date) \/ b.day = "" \/ b.startTime = "" \/ b.endTime = ""
     \/ b.purposeOfMeet = "")
    <=> rescheduleHandler(b).status = 400

C6_Frame ==
  \A c \in Clients :
    (/\ req'[c] # req[c]
     /\ \/ req'[c].pc = "done" /\ req'[c].status \in {400, 404}
        \/ req'[c].pc = "get")
    => /\ availabilityData' = availabilityData
       /\ patients' = patients

C6_ErrorsChangeNothing ==
  [](C6_BookingErrors /\ C6_RescheduleErrors) /\ [][C6_Frame]_vars

\* A reschedule was refused as a conflict while two appointments exist.
C6_Witness ==
  /\ req[1].op = "reschedule" /\ req[1].pc = "done"
  /\ req[1].status = 400 /\ req[1].error = "conflict"
  /\ Cardinality(patients) = 2
  /\ Cardinality(BookedSlots(availabilityData)) = 2

\* C7: while a booking awaits its INSERT the slot is already booked and no
\* row holds it; when the INSERT fails the response is 500, the slot is still
\* booked, and no row holds it.
C7_FlippedBeforeInsert ==
  \A c \in Clients :
    (req[c].op = "book" /\ req[c].pc = "insert")
    => /\ slotStatus(availabilityData, req[c].slot) = "booked"
       /\ \A p \in patients : RowSlot(availabilityData, p) # req[c].slot

C7_InsertFails ==
  \A c \in Clients :
    (req[c].op = "book" /\ Ends(c) /\ patients' = patients)
    => /\ req'[c].status = 500
       /\ slotStatus(availabilityData', req[c].slot) = "booked"
       /\ \A p \in patients' : RowSlot(availabilityData', p) # req[c].slot

C7_FailedInsertLeavesSlotBooked ==
  [](C7_FlippedBeforeInsert) /\ [][C7_InsertFails]_vars

\* A booking failed with 500: a slot is booked and there is no row at all.
C7_Witness ==
  /\ req[1].op = "book" /\ req[1].pc = "done" /\ req[1].status = 500
  /\ slotStatus(availabilityData, req[1].slot) = "booked"
  /\ patients = {}

\* C8: once a request is over and the writes it issued have completed, the
\* file holds every slot status change made in memory (a rewrite was issued
\* after each).
C8_EveryChangeIsWritten ==
  (Quiescent /\ pending = {}) => file = availabilityData

\* C9 as stated: while a booking that has passed the availability check awaits
\* its INSERT, a second booking of the same slot observes it available and
\* passes the check too.
C9_SecondBookingPassesToo ==
  \A c \in Clients :
    (req[c].op = "book" /\ req[c].pc = "insert")
    => \E b \in RacingBookBodies :
         /\ BodySlots(availabilityData, b.doctorId, b) # {}
         /\ BodySlot(availabilityData, b.doctorId, b) = req[c].slot
         /\ Proceeds(bookSlotHandler(availabilityData, b))

\* C9, amended: the step in which a booking passes the availability check
\* finds its slot available and leaves it booked, and as long as the slot is
\* booked every booking of it is rejected with 400.
C9_CheckAndFlipInOneStep ==
  \A c \in Clients :
    (req[c].pc = "done" /\ req'[c].op = "book" /\ req'[c].pc = "insert")
    => /\ slotStatus(availabilityData, req'[c].slot) = "available"
       /\ slotStatus(availabilityData', req'[c].slot) = "booked"

C9_BookedSlotRejects ==
  \A b \in RacingBookBodies :
    (/\ BodySlots(availabilityData, b.doctorId, b) # {}
     /\ slotStatus(availabilityData, BodySlot(availabilityData, b.doctorId, b))
          = "booked")
    => LET h == bookSlotHandler(availabilityData, b)
       IN  h.status = 400 /\ h.error = "conflict" /\ h.data = availabilityData

C9_NoWindowBetweenCheckAndFlip ==
  [](C9_BookedSlotRejects) /\ [][C9_CheckAndFlipInOneStep]_vars

\* A second booking of a slot was rejected while the first still awaits its
\* INSERT and no row exists.
C9_Witness ==
  /\ req[1].op = "book" /\ req[1].pc = "insert"
  /\ req[2].op = "book" /\ req[2].pc = "done"
  /\ req[2].status = 400 /\ req[2].error = "conflict"
  /\ req[2].slot = req[1].slot
  /\ patients = {}

\* Upper and lower case of the letters the city names use.
CasePairs ==
  {<<"A", "a">>, <<"E", "e">>, <<"I", "i">>, <<"L", "l">>, <<"M", "m">>,
   <<"N", "n">>, <<"O", "o">>, <<"P", "p">>, <<"R", "r">>, <<"S", "s">>,
   <<"U", "u">>}

SameIgnoringCase(x, y) ==
  /\ Len(x) = Len(y)
  /\ \A k \in 1..Len(x) :
       x[k] = y[k] \/ <<x[k], y[k]>> \in CasePairs \/ <<y[k], x[k]>> \in CasePairs

\* The k-th smallest element of a set of numbers.
Nth(S, k) == CHOOSE i \in S : Cardinality({j \in S : j < i}) = k - 1

\* The branches of a city that a query for specialization keeps.
KeptBranches(cityObj, specialization) ==
  {j \in 1..Len(cityObj.branches) :
     specialization = ""
     \/ \E n \in 1..Len(cityObj.branches[j].specializationIds) :
          cityObj.branches[j].specializationIds[n] = specialization}

\* The cities of the data that a query keeps.
KeptCities(data, q) ==
  {i \in 1..Len(data) :
     /\ q.city = << >> \/ SameIgnoringCase(data[i].city, q.city)
     /\ q.specialization = "" \/ KeptBranches(data[i], q.specialization) # {}}

\* C10: the response lists, in the order of the data, exactly the cities whose
\* name equals the city parameter ignoring case (all without one) and that
\* have a branch offering the requested specialization (any without one), each
\* with its branches narrowed, in order, to those offering it; and the
\* reference data is never changed.
C10_Response ==
  hospitalsResponse.status = 200 =>
    LET body == hospitalsResponse.body
        K == KeptCities(hospitalData, hospitalsQuery)
    IN  /\ Len(body) = Cardinality(K)
        /\ \A k \in 1..Len(body) :
             LET src == hospitalData[Nth(K, k)]
                 M == KeptBranches(src, hospitalsQuery.specialization)
             IN  /\ body[k].city = src.city
                 /\ Len(body[k].branches) = Cardinality(M)
                 /\ \A m \in 1..Len(body[k].branches) :
                      body[k].branches[m] = src.branches[Nth(M, m)]

C10_HospitalFilter == [](C10_Response) /\ [][hospitalData' = hospitalData]_vars

\* Paris and s1 asked of the data with two Paris records: the record whose
\* only branch lacks s1 is left out although its name matches.
C10_Witness ==
  /\ hospitalsResponse.status = 200
  /\ hospitalData = CityJsonB
  /\ hospitalsQuery = [city |-> City_Paris, specialization |-> "s1"]
  /\ Len(hospitalsResponse.body) = 1
  /\ hospitalsResponse.body[1].city = City_paris
  /\ Len(hospitalsResponse.body[1].branches) = 2

\* C11: under every interleaving of concurrent bookings and reschedules, with
\* storage working and from the empty start, no two appointment rows have the
\* same weekly slot (same template, stored day, startTime and endTime).
C11_NoTwoRowsShareASlot ==
  \A p \in patients : \A q \in patients :
    (/\ RowSlots(availabilityData, p) # {}
     /\ RowSlots(availabilityData, q) # {}
     /\ RowSlot(availabilityData, p) = RowSlot(availabilityData, q))
    => p = q

\* C12: under every interleaving of concurrent cancels, reschedules and
\* bookings, with storage working and from the empty start, whenever no
\* request is in flight every booked slot is the slot of an appointment row
\* and the slot of every appointment row is booked.
C12_LedgersAgreeWhenQuiescent ==
  Quiescent =>
    /\ \A s \in BookedSlots(availabilityData) :
         \E p \in patients :
           /\ RowSlots(availabilityData, p) # {}
           /\ RowSlot(availabilityData, p) = s
    /\ \A p \in patients :
         /\ RowSlots(availabilityData, p) # {}
         /\ slotStatus(availabilityData, RowSlot(availabilityData, p)) = "booked"

\* Client c's request, in flight, takes this step.
Acts(c) == req[c].pc # "done" /\ req'[c] # req[c]

\* The slot a request in flight captured as the row's: the first slot of the
\* doctor's template at the captured day and times, if there is one.
CapturedSlots(data, r) ==
  IF WeeklySlots(data, r.doctorId, r.oldDay, r.oldStartTime, r.oldEndTime) = {}
  THEN {}
  ELSE {WeeklySlot(data, r.doctorId, r.oldDay, r.oldStartTime, r.oldEndTime)}

\* C13: a reschedule changes slot statuses only in the step in which its
\* UPDATE has succeeded, and then as freeing the old slot first and booking the
\* new slot second does, with the rewrite issued; a reschedule answered 500
\* changed no slot status and no row. A cancel changes slot statuses only in
\* the step in which its DELETE has succeeded, freeing the captured slot; a
\* cancel answered 500 changed no slot status and no row.
C13_RescheduleStep ==
  \A c \in Clients :
    (req[c].op = "reschedule" /\ Acts(c))
    => IF req[c].pc = "update" /\ req'[c].status = 200
       THEN /\ patients' = updateRow(patients, req[c].patientId, req[c].body.date,
                                     req[c].dayOfWeek, req[c].body.startTime,
                                     req[c].body.endTime, req[c].body.purposeOfMeet)
            /\ \A s \in AllSlots(availabilityData) :
                 slotStatus(availabilityData', s) =
                   IF s = req[c].slot THEN "booked"
                   ELSE IF s \in CapturedSlots(availabilityData, req[c])
                   THEN "available"
                   ELSE slotStatus(availabilityData, s)
            /\ availabilityData' \in pending'
       ELSE /\ availabilityData' = availabilityData
            /\ req'[c].status = 500 => patients' = patients

C13_CancelStep ==
  \A c \in Clients :
    (req[c].op = "cancel" /\ Acts(c))
    => IF req[c].pc = "delete" /\ req'[c].status = 200
       THEN /\ patients' = deleteRow(patients, req[c].patientId)
            /\ \A s \in AllSlots(availabilityData) :
                 slotStatus(availabilityData', s) =
                   IF s \in CapturedSlots(availabilityData, req[c])
                   THEN "available"
                   ELSE slotStatus(availabilityData, s)
            /\ availabilityData' # availabilityData
                 => availabilityData' \in pending'
       ELSE /\ availabilityData' = availabilityData
            /\ req'[c].status = 500 => patients' = patients

C13_SlotsChangeAfterTheRowChange ==
  [][C13_RescheduleStep /\ C13_CancelStep]_vars

\* A reschedule succeeded and a cancel failed with 500; a slot is booked.
C13_Witness ==
  /\ req[1].op = "reschedule" /\ req[1].pc = "done" /\ req[1].status = 200
  /\ req[2].op = "cancel" /\ req[2].pc = "done" /\ req[2].status = 500
  /\ BookedSlots(availabilityData) # {}
  /\ patients # {}

\* Day values a caller may send in a reschedule body.
CallerDays == {"Monday", "Tuesday", "Friday"}

\* C14: the row a confirmed booking adds and the row a successful reschedule
\* updates store the request's date and, as day, the calendar weekday of that
\* date, which is also the day of the slot that was resolved and is booked; a
\* reschedule body without day is refused with 400, and whatever day it
\* carries the validation and the slot check come out the same.
C14_BookingStoresWeekday ==
  \A c \in Clients :
    (req[c].op = "book" /\ Ends(c) /\ req'[c].status = 201)
    => /\ Cardinality(patients' \ patients) = 1
       /\ \A p \in patients' \ patients :
            /\ p.date = req[c].body.date
            /\ p.day = CalendarWeekday(p.date)
            /\ req[c].slot.day = p.day
            /\ req[c].slot = RowSlot(availabilityData', p)
            /\ slotStatus(availabilityData', req[c].slot) = "booked"

C14_RescheduleStoresWeekday ==
  \A c \in Clients :
    (req[c].op = "reschedule" /\ Ends(c) /\ req'[c].status = 200)
    => \A p \in selectById(patients', req[c].patientId) :
         /\ p.date = req[c].body.date
         /\ p.day = CalendarWeekday(p.date)
         /\ p.day # req[c].body.day
         /\ req[c].slot.day = p.day
         /\ req[c].slot = RowSlot(availabilityData', p)
         /\ slotStatus(availabilityData', req[c].slot) = "booked"

C14_CallerDayIsIgnored ==
  \A b \in RescheduleBodies :
    /\ rescheduleHandler([b EXCEPT !.day = ""]).status = 400
    /\ \A day \in CallerDays :
         /\ rescheduleHandler([b EXCEPT !.day = day])
              = rescheduleHandler([b EXCEPT !.day = "Friday"])
         /\ rescheduleHandler([b EXCEPT !.day = day]).status = 0
              => \A p \in patients :
                   rescheduleCheck(availabilityData, p, [b EXCEPT !.day = day])
                     = rescheduleCheck(availabilityData, p,
                                       [b EXCEPT !.day = "Friday"])

C14_StoredDayIsTheWeekdayOfTheDate ==
  /\ [](C14_CallerDayIsIgnored)
  /\ [][C14_BookingStoresWeekday /\ C14_RescheduleStoresWeekday]_vars

\* A reschedule sent with day Friday moved a row to Monday 2024-03-18.
C14_Witness ==
  /\ req[1].op = "reschedule" /\ req[1].pc = "done" /\ req[1].status = 200
  /\ \E p \in patients : p.date = Date_Mon18 /\ p.day = "Monday"
  /\ req[1].slot.day = "Monday"

\* C15: with requests processed one at a time, a reschedule whose new date
\* has the weekday the row stores, with the row's startTime and endTime, is
\* answered 400 (conflict) when its row has been loaded, and the rows and every
\* slot status are as before.
C15_Step ==
  \A c \in Clients :
    (req[c].op = "reschedule" /\ req[c].pc = "get" /\ Acts(c)
     /\ req'[c].status # 500)
    => \A p \in selectById(patients, req[c].patientId) :
         (/\ CalendarWeekday(req[c].body.date) = p.day
          /\ req[c].body.startTime = p.startTime
          /\ req[c].body.endTime = p.endTime)
         => /\ req'[c].pc = "done"
            /\ req'[c].status = 400 /\ req'[c].error = "conflict"
            /\ req'[c].slot = RowSlot(availabilityData, p)
            /\ patients' = patients
            /\ availabilityData' = availabilityData

C15_RescheduleToOwnSlotRejected == [][C15_Step]_vars

\* The only appointment, booked for Monday 2024-03-11, was asked to move to
\* its own weekly slot: 400, and the row has its date and purpose.
C15_Witness ==
  /\ req[1].op = "reschedule" /\ req[1].pc = "done"
  /\ req[1].status = 400 /\ req[1].error = "conflict"
  /\ \E p \in patients :
       /\ patients = {p}
       /\ p.date = Date_Mon11 /\ p.purposeOfMeet = "checkup"
       /\ RowSlot(availabilityData, p) = req[1].slot
  /\ Cardinality(BookedSlots(availabilityData)) = 1

\* The other doctors who reference the availability template doctorId does.
Colleagues(doctorId) ==
  {doctorData[e].id : e \in {e \in 1..Len(doctorData) :
     /\ doctorData[e].id # doctorId
     /\ \E d \in 1..Len(doctorData) :
          /\ doctorData[d].id = doctorId
          /\ doctorData[d].availabilityId = doctorData[e].availabilityId}}

\* The well-formed dates of the requests that fall on the given weekday.
DatesOn(day) ==
  {dt \in {Date_Mon11, Date_Tue12, Date_Wed13, Date_Mon18} :
     CalendarWeekday(dt) = day}

\* C16: when a booking is confirmed, a booking at the same weekday, startTime
\* and endTime for any other doctor referencing the same template is rejected
\* with 400 (conflict), and that doctor's availability shows the slot booked;
\* when the appointment is cancelled, the slot shows available for its doctor
\* and for every such other doctor, and a booking of it by any of them passes
\* the availability check.
C16_BookingStep ==
  \A c \in Clients :
    (req[c].op = "book" /\ Ends(c) /\ req'[c].status = 201)
    => \A e \in Colleagues(req[c].body.doctorId) :
         /\ ShownStatus(availabilityData', e, req[c].slot) = "booked"
         /\ \A dt \in DatesOn(CalendarWeekday(req[c].body.date)) :
              \E h \in {bookSlotHandler(availabilityData',
                           [req[c].body EXCEPT !.doctorId = e, !.date = dt])} :
                h.status = 400 /\ h.error = "conflict"

C16_CancelStep ==
  \A c \in Clients :
    (req[c].op = "cancel" /\ Ends(c) /\ req'[c].status = 200)
    => \A p \in selectById(patients, req[c].patientId) :
       \A e \in Colleagues(p.doctorId) \cup {p.doctorId} :
         /\ ShownStatus(availabilityData', e, RowSlot(availabilityData, p))
              = "available"
         /\ \A dt \in DatesOn(p.day) :
              Proceeds(bookSlotHandler(availabilityData',
                         Body("Ann", "checkup", e, dt, "", p.startTime,
                              p.endTime, Email_Good)))

C16_SharedTemplateSharedSlots == [][C16_BookingStep /\ C16_CancelStep]_vars

\* Doctor d2's only appointment holds Monday 09:00-10:00 of the template that
\* d1 references too; d1's booking of that time would be rejected, and d1's
\* availability shows the slot booked.
C16_Witness ==
  /\ req[1].op = "book" /\ req[1].pc = "done" /\ req[1].status = 201
  /\ \E p \in patients :
       /\ patients = {p}
       /\ p.doctorId = "d2" /\ "d1" \in Colleagues(p.doctorId)
       /\ ShownStatus(availabilityData, "d1", RowSlot(availabilityData, p))
            = "booked"
       /\ bookSlotHandler(availabilityData,
             Body("Ann", "checkup", "d1", Date_Mon18, "", p.startTime,
                  p.endTime, Email_Good)).status = 400

\* C17: whenever no request is in flight and no issued write of the
\* availability file is outstanding, every slot has in the file the status it
\* has in memory.
C17_FileMatchesMemoryAtRest ==
  (Quiescent /\ pending = {})
  => \A s \in AllSlots(availabilityData) :
       slotStatus(file, s) = slotStatus(availabilityData, s)

\* Arguments the slot resolver is tried with.
ResolverDoctors == {"d1", "d2", "d3", "d4", "dX"}

ResolverDays == {"Monday", "Tuesday", "Wednesday", "Invalid date"}

ResolverTimes == {"09:00", "10:00", "11:00"}

\* What the resolver is to return for these arguments.
C18_Expected(data, r, doctorId, day, startTime, endTime) ==
  LET known == {d \in 1..Len(doctorData) : doctorData[d].id = doctorId}
  IN  IF known = {} THEN r = NoSlot
      ELSE
      LET d == CHOOSE x \in known : \A y \in known : x <= y
          templates == {e \in 1..Len(data) :
                          data[e].availabilityId = doctorData[d].availabilityId}
      IN  IF templates = {} THEN r = NoSlot
          ELSE
          LET e == CHOOSE x \in templates : \A y \in templates : x <= y
          IN  IF day \notin DOMAIN data[e].slots THEN r = NoSlot
              ELSE
              LET matching == {i \in 1..Len(data[e].slots[day]) :
                                 /\ data[e].slots[day][i].startTime = startTime
                                 /\ data[e].slots[day][i].endTime = endTime}
              IN  IF matching = {} THEN r = NoSlot
                  ELSE /\ r # NoSlot
                       /\ r.entry = e /\ r.day = day
                       /\ r.idx \in matching
                       /\ \A j \in matching : r.idx <= j

\* C18: the slot resolver returns not-found for an unknown doctor, for a doctor
\* whose availability-id no template has, for a weekday without slot sequence
\* in the template, and when no slot of the weekday matches both times;
\* otherwise it returns the first slot of the weekday matching both times; and
\* a request that ends on the resolver's answer alone (404 for the slot, or
\* 400 for a booked slot) has changed no slot status, row, write or file.
C18_Returns ==
  \A doctorId \in ResolverDoctors : \A day \in ResolverDays :
  \A startTime \in ResolverTimes : \A endTime \in ResolverTimes :
    \E r \in {findSlotByDayOfWeek(availabilityData, doctorId, day,
                                   startTime, endTime)} :
      C18_Expected(availabilityData, r, doctorId, day, startTime, endTime)

C18_NoSideEffect ==
  \A c \in Clients :
    (/\ req'[c] # req[c] /\ req'[c].pc = "done"
     /\ \/ req'[c].status = 404 /\ req'[c].error = "slot"
        \/ req'[c].status = 400 /\ req'[c].error = "conflict")
    => UNCHANGED <<availabilityData, patients, nextId, pending, file>>

C18_SlotResolver == [](C18_Returns) /\ [][C18_NoSideEffect]_vars

\* A booking was answered 404 for its slot while the first of the two Tuesday
\* 09:00-10:00 slots of A1 is booked and the second is available.
C18_Witness ==
  /\ req[1].op = "book" /\ req[1].pc = "done"
  /\ req[1].status = 404 /\ req[1].error = "slot"
  /\ slotStatus(availabilityData, [entry |-> 2, day |-> "Tuesday", idx |-> 1])
       = "booked"
  /\ slotStatus(availabilityData, [entry |-> 2, day |-> "Tuesday", idx |-> 2])
       = "available"
  /\ findSlotByDayOfWeek(availabilityData, "d1", "Tuesday", "09:00", "10:00")
       = [entry |-> 2, day |-> "Tuesday", idx |-> 1]
  /\ findSlotByDayOfWeek(availabilityData, "d4", "Monday", "09:00", "10:00")
       = NoSlot

====
